---- MODULE Spec2Model ----
(***************************************************************************)
(* Personal-Finance-Tracker: the SQLite ledger (transactions, budgets),    *)
(* the period aggregation queries, the budget evaluator and the report     *)
(* composer, as a state machine.                                           *)
(*                                                                         *)
(* Amounts are REAL columns / Python floats in the source.  The model      *)
(* takes them as integers and keeps every quotient as an exact fraction    *)
(* [num, den] in lowest terms; binary rounding of floats is not modelled.  *)
(***************************************************************************)
EXTENDS Integers, Sequences, FiniteSets, TLC

VARIABLES
    transactions,   \* table transactions: id -> row
    tx_seq,         \* sqlite_sequence of transactions (AUTOINCREMENT)
    budgets,        \* table budgets: id -> row
    budget_seq,     \* sqlite_sequence of budgets (AUTOINCREMENT)
    categories,     \* table categories: id -> row
    category_seq,   \* sqlite_sequence of categories (AUTOINCREMENT)
    today,          \* datetime.now().date()
    ret             \* what the last call returned (or raised)

vars == <<transactions, tx_seq, budgets, budget_seq, categories, category_seq, today, ret>>
ledgerVars == <<transactions, tx_seq>>
budgetVars == <<budgets, budget_seq>>
categoryVars == <<categories, category_seq>>

(***************************************************************************)
(* Bounds of the model                                                     *)
(***************************************************************************)
\* the largest row id an AUTOINCREMENT sequence hands out
MaxId == 2
\* the largest months_to_analyze passed to calculate_recommended_budget
MaxLookback == 6
\* the largest months passed to get_monthly_data_for_chart
MaxChartMonths == 3
\* the largest number of transactions of the ledgers listed in full
MaxRows == 6

(***************************************************************************)
(* Python values                                                           *)
(***************************************************************************)
None == [none |-> TRUE]
Raised(e) == [raised |-> e]

\* datetime.date(year, month, day)
date(year, month, day) == [year |-> year, month |-> month, day |-> day]

\* date.__lt__
DayBeforeDate(a, b) ==
    \/ a.year < b.year
    \/ a.year = b.year /\ a.month < b.month
    \/ a.year = b.year /\ a.month = b.month /\ a.day < b.day

\* a character of an ISO date text, as its code relative to "0"
Dash == 45 - 48

\* date.isoformat(): "YYYY-MM-DD", zero padded
isoformat(d) ==
    << d.year \div 1000, (d.year \div 100) % 10, (d.year \div 10) % 10, d.year % 10,
       Dash, d.month \div 10, d.month % 10,
       Dash, d.day \div 10, d.day % 10 >>

\* SQLite's comparison of two TEXT values (BINARY collation): bytewise,
\* a proper prefix sorting first
TextLess(a, b) ==
    \/ \E i \in 1..Len(a) :
          /\ i <= Len(b)
          /\ a[i] < b[i]
          /\ \A j \in 1..(i - 1) : a[j] = b[j]
    \/ /\ Len(a) < Len(b)
       /\ \A j \in 1..Len(a) : a[j] = b[j]

TextLE(a, b) == a = b \/ TextLess(a, b)

\* SQL: x BETWEEN lo AND hi
Between(x, lo, hi) == TextLE(lo, x) /\ TextLE(x, hi)

\* calendar.monthrange(year, month)[1]
monthrange_days(year, month) ==
    IF month = 2
    THEN IF (year % 4 = 0 /\ year % 100 # 0) \/ year % 400 = 0 THEN 29 ELSE 28
    ELSE IF month \in {4, 6, 9, 11} THEN 30 ELSE 31

(***************************************************************************)
(* Exact fractions                                                         *)
(***************************************************************************)
RECURSIVE Gcd(_, _)
Gcd(a, b) == IF b = 0 THEN a ELSE Gcd(b, a % b)

Abs(x) == IF x < 0 THEN 0 - x ELSE x

\* n / d with d > 0, in lowest terms
Frac(n, d) ==
    LET g == Gcd(Abs(n), d)
    IN  [num |-> n \div g, den |-> d \div g]

Whole(n) == [num |-> n, den |-> 1]
FracGE(p, q) == p.num * q.den >= q.num * p.den
FracGT(p, q) == p.num * q.den > q.num * p.den
FracLT(p, q) == p.num * q.den < q.num * p.den

\* a dict or list once it is built: the same mapping, each of its values
\* computed once, when it is built, and not again at every lookup
built(mapping) == mapping @@ << >>

(***************************************************************************)
(* SQL aggregates over the transactions table                              *)
(***************************************************************************)
RECURSIVE SumAmount(_, _)
\* SUM(amount) over the rows with ids in S
SumAmount(rows, S) ==
    IF S = {} THEN 0
    ELSE LET i == CHOOSE x \in S : TRUE
         IN  rows[i].amount + SumAmount(rows, S \ {i})

RECURSIVE SumValues(_, _)
\* sum(mapping.values()) for the keys in K
SumValues(f, K) ==
    IF K = {} THEN 0
    ELSE LET k == CHOOSE x \in K : TRUE
         IN  f[k] + SumValues(f, K \ {k})

check_type_any(type) == TRUE
\* CHECK (type IN ('income', 'expense'))
check_type(type) == type \in {"income", "expense"}

check_amount_nonneg(amount) == amount >= 0
\* CHECK (amount > 0)
check_amount(amount) == amount > 0

(***************************************************************************)
(* TransactionManager: writes                                              *)
(***************************************************************************)
add_transaction(transaction_type, amount, description, category, transaction_date) ==
    /\ tx_seq < MaxId
    /\ IF check_type(transaction_type) /\ check_amount(amount)
       THEN /\ tx_seq' = tx_seq + 1
            /\ transactions' =
                 [i \in DOMAIN transactions \cup {tx_seq + 1} |->
                    IF i = tx_seq + 1
                    THEN [type |-> transaction_type, amount |-> amount,
                          description |-> description, category |-> category,
                          date |-> isoformat(transaction_date)]
                    ELSE transactions[i]]
            /\ ret' = [op |-> "add_transaction", value |-> tx_seq + 1]
       ELSE /\ UNCHANGED ledgerVars
            /\ ret' = [op |-> "add_transaction", raised |-> "IntegrityError"]
    /\ UNCHANGED <<budgetVars, categoryVars, today>>

update_transaction(transaction_id, transaction_type, amount, description, category, transaction_date) ==
    /\ IF transaction_id \notin DOMAIN transactions
       THEN /\ UNCHANGED ledgerVars
            /\ ret' = [op |-> "update_transaction", value |-> FALSE]
       ELSE IF check_type(transaction_type) /\ check_amount(amount)
       THEN /\ transactions' =
                 [transactions EXCEPT ![transaction_id] =
                    [type |-> transaction_type, amount |-> amount,
                     description |-> description, category |-> category,
                     date |-> isoformat(transaction_date)]]
            /\ UNCHANGED tx_seq
            /\ ret' = [op |-> "update_transaction", value |-> TRUE]
       ELSE /\ UNCHANGED ledgerVars
            /\ ret' = [op |-> "update_transaction", raised |-> "IntegrityError"]
    /\ UNCHANGED <<budgetVars, categoryVars, today>>

delete_transaction(transaction_id) ==
    /\ transactions' =
         [i \in DOMAIN transactions \ {transaction_id} |-> transactions[i]]
    /\ UNCHANGED tx_seq
    /\ ret' = [op |-> "delete_transaction",
               value |-> (transaction_id \in DOMAIN transactions)]
    /\ UNCHANGED <<budgetVars, categoryVars, today>>

(***************************************************************************)
(* TransactionManager: queries                                             *)
(***************************************************************************)
get_total_by_category_any_date(category, start_date, end_date) ==
    SumAmount(transactions,
              {i \in DOMAIN transactions : transactions[i].category = category})
\* SELECT COALESCE(SUM(amount), 0) ... WHERE category = ? AND date BETWEEN ? AND ?
get_total_by_category_and_date_range(category, start_date, end_date) ==
    LET lo == isoformat(start_date)
        hi == isoformat(end_date)
    IN  SumAmount(transactions,
                  {i \in DOMAIN transactions :
                      /\ transactions[i].category = category
                      /\ Between(transactions[i].date, lo, hi)})

\* SQL: date >= ? AND date < ?
in_half_open_inclusive(x, lo, hi) == TextLE(lo, x) /\ TextLE(x, hi)
in_half_open(x, lo, hi) == TextLE(lo, x) /\ TextLess(x, hi)

\* SELECT type, COALESCE(SUM(amount), 0) ... WHERE date >= ? AND date < ?
\* GROUP BY type, laid over totals = {'income': 0.0, 'expense': 0.0}
totals_by_type(start_date, end_date) ==
    LET lo    == isoformat(start_date)
        hi    == isoformat(end_date)
        rows  == {i \in DOMAIN transactions : in_half_open(transactions[i].date, lo, hi)}
        types == {transactions[i].type : i \in rows}
    IN  built([k \in {"income", "expense"} \cup types |->
                  SumAmount(transactions, {i \in rows : transactions[i].type = k})])

\* the exclusive end of the month window
month_end_date_same_year(year, month) ==
    IF month = 12 THEN date(year, 12, 31) ELSE date(year, month + 1, 1)
month_end_date(year, month) ==
    IF month = 12 THEN date(year + 1, 1, 1) ELSE date(year, month + 1, 1)

get_monthly_totals(year, month) ==
    totals_by_type(date(year, month, 1), month_end_date(year, month))

get_yearly_totals(year) ==
    totals_by_type(date(year, 1, 1), date(year + 1, 1, 1))

\* SELECT category, COALESCE(SUM(amount), 0) ... WHERE date BETWEEN ? AND ?
\* AND type = ? GROUP BY category; the mapping category -> sum
get_category_totals_for_period(start_date, end_date, transaction_type) ==
    LET lo   == isoformat(start_date)
        hi   == isoformat(end_date)
        rows == {i \in DOMAIN transactions :
                    /\ Between(transactions[i].date, lo, hi)
                    /\ transactions[i].type = transaction_type}
        cats == {transactions[i].category : i \in rows}
    IN  built([c \in cats |->
                  SumAmount(transactions, {i \in rows : transactions[i].category = c})])

comes_first_id_asc(i, j) ==
    \/ TextLess(transactions[j].date, transactions[i].date)
    \/ transactions[j].date = transactions[i].date /\ i < j
\* ORDER BY date DESC, id DESC: row i is returned before row j
comes_first(i, j) ==
    \/ TextLess(transactions[j].date, transactions[i].date)
    \/ transactions[j].date = transactions[i].date /\ j < i

\* the ids of S in the order of the ORDER BY clause
RECURSIVE ordered(_)
ordered(S) ==
    IF S = {} THEN <<>>
    ELSE LET first == CHOOSE i \in S : \A j \in S \ {i} : comes_first(i, j)
         IN  <<first>> \o ordered(S \ {first})

\* SELECT id, type, amount, description, category, date ... WHERE date
\* BETWEEN ? AND ? ORDER BY date DESC, id DESC, as the list of dicts
get_transactions_by_date_range(start_date, end_date) ==
    LET lo == isoformat(start_date)
        hi == isoformat(end_date)
        ids == ordered({i \in DOMAIN transactions :
                           Between(transactions[i].date, lo, hi)})
    IN  built([n \in 1..Len(ids) |->
                  [id |-> ids[n],
                   type |-> transactions[ids[n]].type,
                   amount |-> transactions[ids[n]].amount,
                   description |-> transactions[ids[n]].description,
                   category |-> transactions[ids[n]].category,
                   date |-> transactions[ids[n]].date]])

\* SELECT id, type, amount, description, category, date FROM transactions
\* ORDER BY date DESC, id DESC, as the list of dicts
get_all_transactions ==
    LET ids == ordered(DOMAIN transactions)
    IN  built([n \in 1..Len(ids) |->
                  [id |-> ids[n],
                   type |-> transactions[ids[n]].type,
                   amount |-> transactions[ids[n]].amount,
                   description |-> transactions[ids[n]].description,
                   category |-> transactions[ids[n]].category,
                   date |-> transactions[ids[n]].date]])

\* month = current_date.month - i; while month <= 0: month += 12; year -= 1
chart_month(current_date, i) ==
    LET month == current_date.month - i
        wraps == IF month > 0 THEN 0 ELSE (0 - month) \div 12 + 1
    IN  <<current_date.year - wraps, month + 12 * wraps>>

\* the dict appended for one month of the walk (month_name, the '%B %Y'
\* rendering of year and month, is left out)
chart_entry(year, month) ==
    LET totals == get_monthly_totals(year, month)
    IN  [year |-> year, month |-> month,
         income |-> totals.income, expense |-> totals.expense,
         net |-> totals.income - totals.expense]

as_walked(data) == data
\* list(reversed(data))
reversed(data) == built([n \in 1..Len(data) |-> data[Len(data) + 1 - n]])

\* the walk appends the current month first (i = 0), then the months before
get_monthly_data_for_chart(months) ==
    reversed(built([n \in 1..months |->
                       LET ym == chart_month(today, n - 1)
                       IN  chart_entry(ym[1], ym[2])]))

(***************************************************************************)
(* TransactionManager: import_from_csv                                     *)
(*                                                                         *)
(* A row is the dict csv.DictReader yields: keys are the columns of the    *)
(* header line, restval the keys of a row shorter than the header, which   *)
(* DictReader sets to None.  Amount and date cells are texts of character  *)
(* codes relative to '0', as the stored dates are.                         *)
(***************************************************************************)
Columns == {"type", "amount", "description", "category", "date"}

NaN == [nan |-> TRUE]

RECURSIVE digits_value(_)
digits_value(text) ==
    IF text = <<>> THEN 0
    ELSE 10 * digits_value(SubSeq(text, 1, Len(text) - 1)) + text[Len(text)]

all_digits(text) == text # <<>> /\ \A n \in 1..Len(text) : text[n] \in 0..9

\* the character '.' relative to '0'
Dot == -2

\* float(text), on decimal integers with an optional sign, on such integers
\* followed by '.0', and on 'nan'
float(text) ==
    IF text = <<62, 49, 62>> THEN NaN
    ELSE IF all_digits(text) THEN [value |-> digits_value(text)]
    ELSE IF /\ Len(text) >= 3
            /\ SubSeq(text, Len(text) - 1, Len(text)) = <<Dot, 0>>
            /\ all_digits(SubSeq(text, 1, Len(text) - 2))
         THEN [value |-> digits_value(SubSeq(text, 1, Len(text) - 2))]
    ELSE IF Len(text) >= 2 /\ text[1] = Dash /\ all_digits(Tail(text))
         THEN [value |-> 0 - digits_value(Tail(text))]
    ELSE Raised("ValueError")

\* datetime.strptime(text, '%Y-%m-%d').date(), on texts of the zero-padded
\* form; the other texts the files hold are not dates
strptime(text) ==
    IF /\ Len(text) = 10
       /\ text[5] = Dash /\ text[8] = Dash
       /\ \A n \in {1, 2, 3, 4, 6, 7, 9, 10} : text[n] \in 0..9
    THEN LET year == digits_value(SubSeq(text, 1, 4))
             month == digits_value(SubSeq(text, 6, 7))
             day == digits_value(SubSeq(text, 9, 10))
         IN  IF /\ year >= 1
                /\ month \in 1..12
                /\ day >= 1 /\ day <= monthrange_days(year, month)
             THEN date(year, month, day)
             ELSE Raised("ValueError")
    ELSE Raised("ValueError")

\* str.lower() and str.strip(), on the texts the files hold
lower(text) ==
    CASE text = " Expense " -> " expense "
      [] text = "Income" -> "income"
      [] OTHER -> text

strip(text) ==
    CASE text = " expense " -> "expense"
      [] text = " " -> ""
      [] text = " pay" -> "pay"
      [] OTHER -> text

\* the body of the loop for one row: the row is skipped (continue), added,
\* or raises an exception that except (ValueError, KeyError) does not catch
import_row(row) ==
    IF ~(Columns \subseteq row.keys) THEN [kind |-> "skip"]
    ELSE IF "type" \in row.restval THEN [kind |-> "raise", error |-> "AttributeError"]
    ELSE IF strip(lower(row.type)) \notin {"income", "expense"} THEN [kind |-> "skip"]
    ELSE IF "amount" \in row.restval THEN [kind |-> "raise", error |-> "TypeError"]
    ELSE IF float(row.amount) = Raised("ValueError") THEN [kind |-> "skip"]
    ELSE IF float(row.amount) # NaN /\ float(row.amount).value <= 0 THEN [kind |-> "skip"]
    ELSE IF "description" \in row.restval THEN [kind |-> "raise", error |-> "AttributeError"]
    ELSE IF strip(row.description) = "" THEN [kind |-> "skip"]
    ELSE IF "category" \in row.restval THEN [kind |-> "raise", error |-> "AttributeError"]
    ELSE IF strip(row.category) = "" THEN [kind |-> "skip"]
    ELSE IF "date" \in row.restval THEN [kind |-> "raise", error |-> "TypeError"]
    ELSE IF strptime(row.date) = Raised("ValueError") THEN [kind |-> "skip"]
    \* add_transaction: NaN is bound as NULL and amount is NOT NULL
    ELSE IF float(row.amount) = NaN THEN [kind |-> "raise", error |-> "IntegrityError"]
    ELSE [kind |-> "add",
          row |-> [type |-> strip(lower(row.type)),
                   amount |-> float(row.amount).value,
                   description |-> strip(row.description),
                   category |-> strip(row.category),
                   date |-> isoformat(strptime(row.date))]]

\* for row in reader: ...; an exception that escapes the loop leaves the
\* rows added before it committed
RECURSIVE import_rows(_, _, _, _)
import_rows(rows, table, seq, imported_count) ==
    IF rows = <<>>
    THEN [transactions |-> table, tx_seq |-> seq,
          imported_count |-> imported_count, raised |-> FALSE]
    ELSE LET step == import_row(Head(rows))
         IN  IF step.kind = "raise"
             THEN [transactions |-> table, tx_seq |-> seq,
                   imported_count |-> imported_count, raised |-> TRUE]
             ELSE IF step.kind = "skip"
             THEN import_rows(Tail(rows), table, seq, imported_count)
             ELSE import_rows(Tail(rows),
                              [i \in DOMAIN table \cup {seq + 1} |->
                                  IF i = seq + 1 THEN step.row ELSE table[i]],
                              seq + 1, imported_count + 1)

import_from_csv(rows) ==
    /\ tx_seq + Len(rows) <= MaxId
    /\ \E done \in {import_rows(rows, transactions, tx_seq, 0)} :
           /\ transactions' = done.transactions
           /\ tx_seq' = done.tx_seq
           /\ ret' = [op |-> "import_from_csv", args |-> <<rows>>,
                      value |-> IF done.raised THEN FALSE
                                ELSE done.imported_count > 0]
    /\ UNCHANGED <<budgetVars, categoryVars, today>>

(***************************************************************************)
(* TransactionManager: export_to_csv                                       *)
(***************************************************************************)
RECURSIVE digits(_)
\* the decimal digits of a natural number, as a text
digits(n) == IF n < 10 THEN <<n>> ELSE digits(n \div 10) \o <<n % 10>>

\* str(amount) as csv.DictWriter writes a REAL that holds a whole number: 50.0
str_float(amount) == digits(amount) \o <<Dot, 0>>

\* writer.writerow(transaction): the row as csv.DictReader reads it back,
\* every cell a text; quoting is undone by the reader
written_row(transaction) ==
    [keys |-> Columns \cup {"id"}, restval |-> {},
     id |-> digits(transaction.id),
     type |-> transaction.type,
     amount |-> str_float(transaction.amount),
     description |-> transaction.description,
     category |-> transaction.category,
     date |-> transaction.date]

\* the value is True; file holds the rows written after the header line
export_to_csv ==
    /\ ret' = [op |-> "export_to_csv", value |-> TRUE,
               file |-> [n \in 1..Len(get_all_transactions) |->
                            written_row(get_all_transactions[n])]]
    /\ UNCHANGED <<ledgerVars, budgetVars, categoryVars, today>>

(***************************************************************************)
(* BudgetManager                                                           *)
(***************************************************************************)
\* CHECK (period IN ('monthly', 'yearly'))
check_period(period) == period \in {"monthly", "yearly"}

\* the keys (category, period) in the order of ORDER BY category, period
BudgetKeyOrder ==
    << <<"Food", "monthly">>, <<"Food", "yearly">>,
       <<"Rent", "monthly">>, <<"Rent", "yearly">> >>

\* the ids of the budgets of (category, period); UNIQUE(category, period)
budget_ids(category, period) ==
    {i \in DOMAIN budgets :
        budgets[i].category = category /\ budgets[i].period = period}

\* INSERT OR REPLACE: the row of (category, period) is dropped and a new row
\* with a new id is inserted
set_budget_replace(category, amount, period) ==
    /\ budget_seq < MaxId
    /\ IF check_amount(amount) /\ check_period(period)
       THEN /\ budget_seq' = budget_seq + 1
            /\ budgets' =
                 [i \in (DOMAIN budgets \ budget_ids(category, period)) \cup {budget_seq + 1} |->
                    IF i = budget_seq + 1
                    THEN [category |-> category, amount |-> amount, period |-> period]
                    ELSE budgets[i]]
            /\ ret' = [op |-> "set_budget", args |-> <<category, amount, period>>,
                       value |-> TRUE]
       ELSE /\ UNCHANGED budgetVars
            /\ ret' = [op |-> "set_budget", args |-> <<category, amount, period>>,
                       value |-> FALSE]
    /\ UNCHANGED <<ledgerVars, categoryVars, today>>
set_budget(category, amount, period) ==
    /\ budget_ids(category, period) = {} => budget_seq < MaxId
    /\ IF budget_ids(category, period) # {}
       THEN IF check_amount(amount)
            THEN /\ budgets' =
                      [i \in DOMAIN budgets |->
                         IF i \in budget_ids(category, period)
                         THEN [budgets[i] EXCEPT !.amount = amount]
                         ELSE budgets[i]]
                 /\ UNCHANGED budget_seq
                 /\ ret' = [op |-> "set_budget", args |-> <<category, amount, period>>,
                            value |-> TRUE]
            ELSE /\ UNCHANGED budgetVars
                 /\ ret' = [op |-> "set_budget", args |-> <<category, amount, period>>,
                            value |-> FALSE]
       ELSE IF check_amount(amount) /\ check_period(period)
            THEN /\ budget_seq' = budget_seq + 1
                 /\ budgets' =
                      [i \in DOMAIN budgets \cup {budget_seq + 1} |->
                         IF i = budget_seq + 1
                         THEN [category |-> category, amount |-> amount,
                               period |-> period]
                         ELSE budgets[i]]
                 /\ ret' = [op |-> "set_budget", args |-> <<category, amount, period>>,
                            value |-> TRUE]
            ELSE /\ UNCHANGED budgetVars
                 /\ ret' = [op |-> "set_budget", args |-> <<category, amount, period>>,
                            value |-> FALSE]
    /\ UNCHANGED <<ledgerVars, categoryVars, today>>

delete_budget(budget_id) ==
    /\ budgets' = [i \in DOMAIN budgets \ {budget_id} |-> budgets[i]]
    /\ UNCHANGED budget_seq
    /\ ret' = [op |-> "delete_budget", value |-> (budget_id \in DOMAIN budgets)]
    /\ UNCHANGED <<ledgerVars, categoryVars, today>>

\* DELETE FROM budgets WHERE category = ? AND period = ?
delete_budget_by_category_and_period(category, period) ==
    /\ budgets' =
         [i \in DOMAIN budgets \ budget_ids(category, period) |-> budgets[i]]
    /\ UNCHANGED budget_seq
    /\ ret' = [op |-> "delete_budget_by_category_and_period",
               value |-> (budget_ids(category, period) # {})]
    /\ UNCHANGED <<ledgerVars, categoryVars, today>>

get_budget_any_period(category, period) ==
    IF {i \in DOMAIN budgets : budgets[i].category = category} = {} THEN None
    ELSE LET i == CHOOSE x \in DOMAIN budgets : budgets[x].category = category
         IN  [id |-> i, category |-> budgets[i].category,
              amount |-> budgets[i].amount, period |-> budgets[i].period]
\* the row as the dict get_budget builds, or None
get_budget(category, period) ==
    IF budget_ids(category, period) = {} THEN None
    ELSE LET i == CHOOSE x \in budget_ids(category, period) : TRUE
         IN  [id |-> i, category |-> budgets[i].category,
              amount |-> budgets[i].amount, period |-> budgets[i].period]

\* SELECT ... FROM budgets ORDER BY category, period
get_all_budgets ==
    LET present == SelectSeq(BudgetKeyOrder, LAMBDA k : budget_ids(k[1], k[2]) # {})
    IN  built([n \in 1..Len(present) |-> get_budget(present[n][1], present[n][2])])

\* the first day of the budget window that holds current_date
period_start(period, current_date) ==
    IF period = "monthly"
    THEN date(current_date.year, current_date.month, 1)
    ELSE date(current_date.year, 1, 1)

\* the end date of the budget window that holds current_date
period_end(period, current_date) ==
    IF period = "monthly"
    THEN IF current_date.month = 12
         THEN date(current_date.year + 1, 1, 1)
         ELSE date(current_date.year, current_date.month + 1, 1)
    ELSE date(current_date.year + 1, 1, 1)

\* (spent_amount / budget_amount) * 100 if budget_amount > 0 else 0
percentage_used(spent_amount, budget_amount) ==
    IF budget_amount > 0 THEN Frac(spent_amount * 100, budget_amount) ELSE Whole(0)

is_over_budget_ge(spent_amount, budget_amount) == spent_amount >= budget_amount
\* 'is_over_budget': spent_amount > budget_amount
is_over_budget(spent_amount, budget_amount) == spent_amount > budget_amount

get_budget_status(category, period) ==
    LET budget == get_budget(category, period)
        start_date == period_start(period, today)
        end_date == period_end(period, today)
        spent_amount ==
            get_total_by_category_and_date_range(category, start_date, end_date)
    IN  IF budget = None THEN None
        ELSE [budget |-> budget,
              spent_amount |-> spent_amount,
              remaining_amount |-> budget.amount - spent_amount,
              percentage_used |-> percentage_used(spent_amount, budget.amount),
              is_over_budget |-> is_over_budget(spent_amount, budget.amount),
              period_start |-> isoformat(start_date),
              period_end |-> isoformat(end_date)]

get_all_budget_statuses ==
    LET all == [n \in 1..Len(get_all_budgets) |->
                   get_budget_status(get_all_budgets[n].category,
                                     get_all_budgets[n].period)]
    IN  SelectSeq(all, LAMBDA status : status # None)

alert_type_gt(percentage, warning_threshold) ==
    IF FracGE(percentage, Whole(100)) THEN "over_budget"
    ELSE IF FracGT(percentage, warning_threshold) THEN "approaching_limit"
    ELSE "none"
\* if percentage_used >= 100: over_budget; elif percentage_used >= warning_threshold:
\* approaching_limit; else no alert
alert_type(percentage, warning_threshold) ==
    IF FracGE(percentage, Whole(100)) THEN "over_budget"
    ELSE IF FracGE(percentage, warning_threshold) THEN "approaching_limit"
    ELSE "none"

\* the alerts, in the order of the statuses (the message text is left out)
get_budget_alerts(warning_threshold) ==
    LET alerting == SelectSeq(get_all_budget_statuses,
                       LAMBDA status :
                          alert_type(status.percentage_used, warning_threshold) # "none")
    IN  built([n \in 1..Len(alerting) |->
                  [type |-> alert_type(alerting[n].percentage_used, warning_threshold),
                   category |-> alerting[n].budget.category,
                   period |-> alerting[n].budget.period,
                   percentage_used |-> alerting[n].percentage_used]])

lookback_start_short(current_date, months_to_analyze) ==
    LET month == current_date.month - months_to_analyze + 1
        wraps == IF month > 0 THEN 0 ELSE (0 - month) \div 12 + 1
    IN  date(current_date.year - wraps, month + 12 * wraps, 1)
\* the first day of the month months_to_analyze months before current_date
lookback_start(current_date, months_to_analyze) ==
    LET month == current_date.month - months_to_analyze
        wraps == IF month > 0 THEN 0 ELSE (0 - month) \div 12 + 1
    IN  date(current_date.year - wraps, month + 12 * wraps, 1)

calculate_recommended_budget_zero(category, months_to_analyze) ==
    LET start_date == lookback_start(today, months_to_analyze)
        total_spent ==
            get_total_by_category_and_date_range(category, start_date, today)
    IN  IF months_to_analyze = 0 THEN None
        ELSE Frac(total_spent * 11, months_to_analyze * 10)
calculate_recommended_budget(category, months_to_analyze) ==
    LET start_date == lookback_start(today, months_to_analyze)
        end_date == today
        total_spent ==
            get_total_by_category_and_date_range(category, start_date, end_date)
    IN  IF total_spent = 0 THEN None
        ELSE IF months_to_analyze = 0 THEN None
        ELSE Frac(total_spent * 11, months_to_analyze * 10)

\* the wall clock moves on to a later day
tick(later) ==
    /\ DayBeforeDate(today, later)
    /\ today' = later
    /\ ret' = [op |-> "none"]
    /\ UNCHANGED <<ledgerVars, budgetVars, categoryVars>>

(***************************************************************************)
(* CategoryManager                                                         *)
(***************************************************************************)
unique_type_name_off(category_type, name, category_id) == TRUE
\* UNIQUE(type, name): no row other than category_id holds (type, name)
unique_type_name(category_type, name, category_id) ==
    \A i \in DOMAIN categories \ {category_id} :
        ~(categories[i].type = category_type /\ categories[i].name = name)

add_category(category_type, name, description) ==
    /\ category_seq < MaxId
    /\ IF check_type(category_type) /\ unique_type_name(category_type, name, 0)
       THEN /\ category_seq' = category_seq + 1
            /\ categories' =
                 [i \in DOMAIN categories \cup {category_seq + 1} |->
                    IF i = category_seq + 1
                    THEN [type |-> category_type, name |-> name,
                          description |-> description]
                    ELSE categories[i]]
            /\ ret' = [op |-> "add_category", args |-> <<category_type, name>>,
                       value |-> TRUE]
       ELSE /\ UNCHANGED categoryVars
            /\ ret' = [op |-> "add_category", args |-> <<category_type, name>>,
                       value |-> FALSE]
    /\ UNCHANGED <<ledgerVars, budgetVars, today>>

\* the rename also rewrites the category text of the transactions filed
\* under the old name
update_category_cascade(category_id, name, description) ==
    /\ IF category_id \in DOMAIN categories
          /\ unique_type_name(categories[category_id].type, name, category_id)
       THEN /\ categories' =
                 [categories EXCEPT ![category_id] =
                    [@ EXCEPT !.name = name, !.description = description]]
            /\ transactions' =
                 [i \in DOMAIN transactions |->
                    IF transactions[i].category = categories[category_id].name
                    THEN [transactions[i] EXCEPT !.category = name]
                    ELSE transactions[i]]
            /\ ret' = [op |-> "update_category", args |-> <<category_id, name>>,
                       value |-> TRUE]
       ELSE /\ UNCHANGED <<categories, transactions>>
            /\ ret' = [op |-> "update_category", args |-> <<category_id, name>>,
                       value |-> FALSE]
    /\ UNCHANGED <<tx_seq, category_seq, budgetVars, today>>
update_category(category_id, name, description) ==
    /\ IF category_id \notin DOMAIN categories
       THEN /\ UNCHANGED categoryVars
            /\ ret' = [op |-> "update_category", args |-> <<category_id, name>>,
                       value |-> FALSE]
       ELSE IF unique_type_name(categories[category_id].type, name, category_id)
       THEN /\ categories' =
                 [categories EXCEPT ![category_id] =
                    [@ EXCEPT !.name = name, !.description = description]]
            /\ UNCHANGED category_seq
            /\ ret' = [op |-> "update_category", args |-> <<category_id, name>>,
                       value |-> TRUE]
       ELSE /\ UNCHANGED categoryVars
            /\ ret' = [op |-> "update_category", args |-> <<category_id, name>>,
                       value |-> FALSE]
    /\ UNCHANGED <<ledgerVars, budgetVars, today>>

used_in_transactions_of_type(category_id) ==
    /\ category_id \in DOMAIN categories
    /\ \E t \in DOMAIN transactions :
          /\ transactions[t].category = categories[category_id].name
          /\ transactions[t].type = categories[category_id].type
\* SELECT COUNT(*) FROM transactions t JOIN categories c
\* ON t.category = c.name WHERE c.id = ?  is above 0
used_in_transactions(category_id) ==
    /\ category_id \in DOMAIN categories
    /\ \E t \in DOMAIN transactions :
          transactions[t].category = categories[category_id].name

delete_category(category_id) ==
    /\ IF used_in_transactions(category_id)
       THEN /\ UNCHANGED categoryVars
            /\ ret' = [op |-> "delete_category", args |-> <<category_id>>,
                       value |-> FALSE]
       ELSE /\ categories' =
                 [i \in DOMAIN categories \ {category_id} |-> categories[i]]
            /\ UNCHANGED category_seq
            /\ ret' = [op |-> "delete_category", args |-> <<category_id>>,
                       value |-> (category_id \in DOMAIN categories)]
    /\ UNCHANGED <<ledgerVars, budgetVars, today>>

(***************************************************************************)
(* ReportGenerator                                                         *)
(***************************************************************************)
\* float division a / b
truediv(a, b) == IF b = 0 THEN Raised("ZeroDivisionError") ELSE Frac(a, b)

\* if totals['expense'] > 0:
\*     savings_rate = ((totals['income'] - totals['expense']) / totals['income']) * 100
savings_rate(totals) ==
    IF totals.expense > 0
    THEN truediv((totals.income - totals.expense) * 100, totals.income)
    ELSE None

\* percentage = (amount / total) * 100 if total > 0 else 0, per category
breakdown(category_totals, total) ==
    built([c \in DOMAIN category_totals |->
              IF total > 0 THEN truediv(category_totals[c] * 100, total) ELSE Whole(0)])

\* the comparison block against the previous period's totals
comparison(totals, prev_totals) ==
    IF prev_totals.income > 0 \/ prev_totals.expense > 0
    THEN [income_change  |-> totals.income - prev_totals.income,
          expense_change |-> totals.expense - prev_totals.expense,
          income_pct_change |->
              IF prev_totals.income > 0
              THEN truediv((totals.income - prev_totals.income) * 100, prev_totals.income)
              ELSE None,
          expense_pct_change |->
              IF prev_totals.expense > 0
              THEN truediv((totals.expense - prev_totals.expense) * 100, prev_totals.expense)
              ELSE None]
    ELSE None

\* the sections of a report; an exception raised while building them is
\* caught and the report is replaced by the error text
compose(totals, income_categories, expense_categories, prev_totals, error_text) ==
    LET rate == savings_rate(totals)
    IN  IF rate = Raised("ZeroDivisionError")
        THEN [error |-> TRUE, text |-> error_text]
        ELSE [error |-> FALSE,
              income |-> totals.income,
              expense |-> totals.expense,
              net |-> totals.income - totals.expense,
              savings_rate |-> rate,
              income_breakdown |-> breakdown(income_categories, totals.income),
              expense_breakdown |-> breakdown(expense_categories, totals.expense),
              comparison |-> comparison(totals, prev_totals)]

month_last_date_30(year, month) == date(year, month, 30)
\* the inclusive end of the month window of the monthly report
month_last_date(year, month) == date(year, month, monthrange_days(year, month))

\* the previous month of the monthly report
prev_month(year, month) ==
    IF month > 1 THEN <<year, month - 1>> ELSE <<year - 1, 12>>

\* sorted(list, key=lambda x: x['amount'], reverse=True): a stable sort,
\* entries of equal amount stay in the order of list
RECURSIVE sorted_reverse(_)
sorted_reverse(list) ==
    IF list = <<>> THEN <<>>
    ELSE LET first == CHOOSE n \in 1..Len(list) :
                          /\ \A m \in 1..Len(list) : list[m].amount <= list[n].amount
                          /\ \A m \in 1..(n - 1) : list[m].amount < list[n].amount
         IN  <<list[first]>> \o
             sorted_reverse(SubSeq(list, 1, first - 1) \o
                            SubSeq(list, first + 1, Len(list)))

\* the entries of the TOP 5 EXPENSES section: sorted_expenses[:5]
top_expenses(monthly_transactions) ==
    LET expense_transactions ==
            SelectSeq(monthly_transactions, LAMBDA t : t.type = "expense")
        sorted_expenses == sorted_reverse(expense_transactions)
    IN  SubSeq(sorted_expenses, 1,
               IF Len(sorted_expenses) < 5 THEN Len(sorted_expenses) ELSE 5)

\* the sections of the monthly report: those it shares with the yearly
\* report and the TOP 5 EXPENSES section (empty when the month has no
\* expense transaction and the section is left out)
monthly_sections(composed, top) ==
    IF composed.error THEN composed
    ELSE [error |-> FALSE,
          income |-> composed.income,
          expense |-> composed.expense,
          net |-> composed.net,
          savings_rate |-> composed.savings_rate,
          income_breakdown |-> composed.income_breakdown,
          expense_breakdown |-> composed.expense_breakdown,
          comparison |-> composed.comparison,
          top_expenses |-> top]

generate_monthly_report(year, month) ==
    LET totals == get_monthly_totals(year, month)
        start_date == date(year, month, 1)
        end_date == month_last_date(year, month)
        income_categories ==
            get_category_totals_for_period(start_date, end_date, "income")
        expense_categories ==
            get_category_totals_for_period(start_date, end_date, "expense")
        prev == prev_month(year, month)
        prev_totals == get_monthly_totals(prev[1], prev[2])
        composed ==
            compose(totals, income_categories, expense_categories,
                    prev_totals, "Error generating monthly report")
        top == top_expenses(get_transactions_by_date_range(start_date, end_date))
    IN  /\ \E sections \in {composed}, listed \in {top} :
              ret' = [op |-> "generate_monthly_report",
                      args |-> <<year, month>>,
                      totals |-> totals,
                      income_categories |-> income_categories,
                      expense_categories |-> expense_categories,
                      value |-> monthly_sections(sections, listed)]
        /\ UNCHANGED <<ledgerVars, budgetVars, categoryVars, today>>

\* monthly_data: one dict per month of range(1, 13) (month_name, the name
\* of the month, is left out)
monthly_data(year) ==
    built([month \in 1..12 |->
              LET month_totals == get_monthly_totals(year, month)
              IN  [month |-> month,
                   income |-> month_totals.income,
                   expense |-> month_totals.expense,
                   net |-> month_totals.income - month_totals.expense]])

last_max(values) ==
    CHOOSE n \in 1..Len(values) :
        /\ \A m \in 1..Len(values) : values[m] <= values[n]
        /\ \A m \in (n + 1)..Len(values) : values[m] < values[n]
\* max(list, key=...): the position of the first entry with the largest key
first_max(values) ==
    CHOOSE n \in 1..Len(values) :
        /\ \A m \in 1..Len(values) : values[m] <= values[n]
        /\ \A m \in 1..(n - 1) : values[m] < values[n]

\* min(list, key=...): the position of the first entry with the smallest key
first_min(values) ==
    CHOOSE n \in 1..Len(values) :
        /\ \A m \in 1..Len(values) : values[m] >= values[n]
        /\ \A m \in 1..(n - 1) : values[m] > values[n]

\* the months named by the BEST AND WORST MONTHS section
highlights(trends) ==
    [best_month |-> trends[first_max([m \in 1..Len(trends) |-> trends[m].net])].month,
     worst_month |-> trends[first_min([m \in 1..Len(trends) |-> trends[m].net])].month,
     highest_income_month |->
         trends[first_max([m \in 1..Len(trends) |-> trends[m].income])].month,
     highest_expense_month |->
         trends[first_max([m \in 1..Len(trends) |-> trends[m].expense])].month]

\* the sections of the yearly report: those it shares with the monthly
\* report, the MONTHLY TRENDS table, one row per entry of monthly_data, and
\* the months of the BEST AND WORST MONTHS section
yearly_sections(composed, trends) ==
    IF composed.error THEN composed
    ELSE [error |-> FALSE,
          income |-> composed.income,
          expense |-> composed.expense,
          net |-> composed.net,
          savings_rate |-> composed.savings_rate,
          income_breakdown |-> composed.income_breakdown,
          expense_breakdown |-> composed.expense_breakdown,
          comparison |-> composed.comparison,
          monthly_trends |-> trends,
          highlights |-> highlights(trends)]

generate_yearly_report(year) ==
    LET totals == get_yearly_totals(year)
        start_date == date(year, 1, 1)
        end_date == date(year, 12, 31)
        income_categories ==
            get_category_totals_for_period(start_date, end_date, "income")
        expense_categories ==
            get_category_totals_for_period(start_date, end_date, "expense")
        prev_year_totals == get_yearly_totals(year - 1)
        composed ==
            compose(totals, income_categories, expense_categories,
                    prev_year_totals, "Error generating yearly report")
    IN  /\ \E sections \in {composed}, trends \in {monthly_data(year)} :
              ret' = [op |-> "generate_yearly_report",
                      args |-> <<year>>,
                      totals |-> totals,
                      income_categories |-> income_categories,
                      expense_categories |-> expense_categories,
                      value |-> yearly_sections(sections, trends)]
        /\ UNCHANGED <<ledgerVars, budgetVars, categoryVars, today>>

(***************************************************************************)
(* Calls of the read-only queries                                          *)
(***************************************************************************)
call_get_monthly_totals(year, month) ==
    /\ ret' = [op |-> "get_monthly_totals", args |-> <<year, month>>,
               value |-> get_monthly_totals(year, month)]
    /\ UNCHANGED <<ledgerVars, budgetVars, categoryVars, today>>

call_get_category_totals_for_period(start_date, end_date, transaction_type) ==
    /\ ret' = [op |-> "get_category_totals_for_period",
               args |-> <<start_date, end_date, transaction_type>>,
               value |-> get_category_totals_for_period(start_date, end_date,
                                                        transaction_type)]
    /\ UNCHANGED <<ledgerVars, budgetVars, categoryVars, today>>

call_get_total_by_category_and_date_range(category, start_date, end_date) ==
    /\ ret' = [op |-> "get_total_by_category_and_date_range",
               args |-> <<category, start_date, end_date>>,
               value |-> get_total_by_category_and_date_range(category, start_date,
                                                              end_date)]
    /\ UNCHANGED <<ledgerVars, budgetVars, categoryVars, today>>

call_get_transactions_by_date_range(start_date, end_date) ==
    /\ ret' = [op |-> "get_transactions_by_date_range",
               args |-> <<start_date, end_date>>,
               value |-> get_transactions_by_date_range(start_date, end_date)]
    /\ UNCHANGED <<ledgerVars, budgetVars, categoryVars, today>>

call_get_monthly_data_for_chart(months) ==
    /\ ret' = [op |-> "get_monthly_data_for_chart", args |-> <<months>>,
               value |-> get_monthly_data_for_chart(months)]
    /\ UNCHANGED <<ledgerVars, budgetVars, categoryVars, today>>

call_get_yearly_totals(year) ==
    /\ ret' = [op |-> "get_yearly_totals", args |-> <<year>>,
               value |-> get_yearly_totals(year)]
    /\ UNCHANGED <<ledgerVars, budgetVars, categoryVars, today>>

call_get_budget_status(category, period) ==
    /\ ret' = [op |-> "get_budget_status", args |-> <<category, period>>,
               value |-> get_budget_status(category, period)]
    /\ UNCHANGED <<ledgerVars, budgetVars, categoryVars, today>>

call_get_budget_alerts(warning_threshold) ==
    /\ ret' = [op |-> "get_budget_alerts", args |-> <<warning_threshold>>,
               value |-> get_budget_alerts(warning_threshold)]
    /\ UNCHANGED <<ledgerVars, budgetVars, categoryVars, today>>

(***************************************************************************)
(* PersonalFinanceTracker.view_budget_status (main.py): the menu's own     *)
(* reckoning of each budget, one printed block per budget                  *)
(***************************************************************************)
\* if percentage > 100: OVER BUDGET!; elif percentage > 80: Approaching budget
\* limit; else: Within budget
status_line(percentage) ==
    IF FracGT(percentage, Whole(100)) THEN "OVER BUDGET!"
    ELSE IF FracGT(percentage, Whole(80)) THEN "Approaching budget limit"
    ELSE "Within budget"

\* the block printed for one budget of get_all_budgets
view_block(budget) ==
    LET start_date == period_start(budget.period, today)
        end_date == period_end(budget.period, today)
        spent_amount ==
            get_total_by_category_and_date_range(budget.category, start_date, end_date)
        percentage == percentage_used(spent_amount, budget.amount)
    IN  [category |-> budget.category,
         period |-> budget.period,
         budget |-> budget.amount,
         spent |-> spent_amount,
         remaining |-> budget.amount - spent_amount,
         used |-> percentage,
         shown |-> status_line(percentage)]

\* the value is the sequence of blocks printed; "No budgets set." is the empty one
view_budget_status ==
    /\ ret' = [op |-> "view_budget_status",
               value |-> [n \in 1..Len(get_all_budgets) |->
                             view_block(get_all_budgets[n])]]
    /\ UNCHANGED <<ledgerVars, budgetVars, categoryVars, today>>

call_calculate_recommended_budget(category, months_to_analyze) ==
    /\ ret' = [op |-> "calculate_recommended_budget",
               args |-> <<category, months_to_analyze>>,
               value |-> calculate_recommended_budget(category, months_to_analyze)]
    /\ UNCHANGED <<ledgerVars, budgetVars, categoryVars, today>>

(***************************************************************************)
(* The ledger and its reports                                              *)
(***************************************************************************)
Types == {"income", "expense", "transfer"}
Amounts == {0, 50}
Descriptions == {"lunch"}
Categories == {"Food", "Rent"}
LedgerDates == {date(2024, 2, 29), date(2024, 12, 31), date(2025, 1, 1)}
ReportMonths == {<<2024, 2>>, <<2024, 12>>}
ReportYears == {2024}

Init ==
    /\ transactions = <<>>
    /\ tx_seq = 0
    /\ budgets = <<>>
    /\ budget_seq = 0
    /\ categories = <<>>
    /\ category_seq = 0
    /\ today = date(2024, 12, 15)
    /\ ret = [op |-> "none"]

Next ==
    \/ \E t \in Types, a \in Amounts, s \in Descriptions, c \in Categories,
          d \in LedgerDates : add_transaction(t, a, s, c, d)
    \/ \E i \in 1..MaxId, t \in Types, a \in Amounts, s \in Descriptions,
          c \in Categories, d \in LedgerDates : update_transaction(i, t, a, s, c, d)
    \/ \E i \in 1..MaxId : delete_transaction(i)
    \/ \E ym \in ReportMonths : call_get_monthly_totals(ym[1], ym[2])
    \/ \E y \in ReportYears : call_get_yearly_totals(y)
    \/ \E ym \in ReportMonths : generate_monthly_report(ym[1], ym[2])
    \/ \E y \in ReportYears : generate_yearly_report(y)

Spec == Init /\ [][Next]_vars

(***************************************************************************)
(* The budgets against the ledger, as the clock moves                      *)
(***************************************************************************)
BudgetTypes == {"expense"}
BudgetTxAmounts == {20, 80}
BudgetTxDates == {date(2024, 11, 30), date(2024, 12, 1), date(2025, 1, 1)}
BudgetCategories == {"Food"}
BudgetAmounts == {0, 100}
Periods == {"monthly", "yearly"}
Thresholds == {Whole(50), Whole(80)}
BudgetDays == {date(2024, 11, 15), date(2024, 12, 15)}

InitBudget ==
    /\ transactions = <<>>
    /\ tx_seq = 0
    /\ budgets = <<>>
    /\ budget_seq = 0
    /\ categories = <<>>
    /\ category_seq = 0
    /\ today \in BudgetDays
    /\ ret = [op |-> "none"]

NextBudget ==
    \/ \E t \in BudgetTypes, a \in BudgetTxAmounts, s \in Descriptions,
          c \in Categories, d \in BudgetTxDates : add_transaction(t, a, s, c, d)
    \/ \E c \in BudgetCategories, a \in BudgetAmounts, p \in Periods :
          set_budget(c, a, p)
    \/ \E d \in BudgetDays : tick(d)
    \/ \E c \in Categories, p \in Periods : call_get_budget_status(c, p)
    \/ \E w \in Thresholds : call_get_budget_alerts(w)

SpecBudget == InitBudget /\ [][NextBudget]_vars

(***************************************************************************)
(* Budgets over a ledger that files income and expenses under one category *)
(***************************************************************************)
SpentTypes == {"income", "expense"}
SpentTxAmounts == {20, 80, 90}
SpentTxDates == {date(2024, 12, 1), date(2025, 1, 1)}
SpentCategories == {"Food"}
SpentBudgetAmounts == {100}
SpentThresholds == {Whole(80)}

InitSpent ==
    /\ transactions = <<>>
    /\ tx_seq = 0
    /\ budgets = <<>>
    /\ budget_seq = 0
    /\ categories = <<>>
    /\ category_seq = 0
    /\ today = date(2024, 12, 15)
    /\ ret = [op |-> "none"]

NextSpent ==
    \/ \E t \in SpentTypes, a \in SpentTxAmounts, c \in SpentCategories,
          d \in SpentTxDates : add_transaction(t, a, "pay", c, d)
    \/ \E c \in SpentCategories, a \in SpentBudgetAmounts, p \in Periods :
          set_budget(c, a, p)
    \/ \E c \in SpentCategories, p \in Periods : call_get_budget_status(c, p)
    \/ \E w \in SpentThresholds : call_get_budget_alerts(w)
    \/ view_budget_status

SpecSpent == InitSpent /\ [][NextSpent]_vars

(***************************************************************************)
(* The recommended budget over the ledger                                  *)
(***************************************************************************)
RecommendAmounts == {300, 600}
RecommendTxDates ==
    {date(2023, 8, 31), date(2023, 9, 1), date(2024, 3, 15), date(2024, 3, 16)}
RecommendDays == {date(2024, 3, 15), date(2024, 8, 15)}

InitRecommend ==
    /\ transactions = <<>>
    /\ tx_seq = 0
    /\ budgets = <<>>
    /\ budget_seq = 0
    /\ categories = <<>>
    /\ category_seq = 0
    /\ today \in RecommendDays
    /\ ret = [op |-> "none"]

NextRecommend ==
    \/ \E t \in BudgetTypes, a \in RecommendAmounts, s \in Descriptions,
          c \in Categories, d \in RecommendTxDates : add_transaction(t, a, s, c, d)
    \/ \E c \in Categories, n \in 1..MaxLookback :
          call_calculate_recommended_budget(c, n)

SpecRecommend == InitRecommend /\ [][NextRecommend]_vars

(***************************************************************************)
(* The recommended budget over a ledger fed month after month              *)
(***************************************************************************)
SteadyAmounts == {300, 600}
SteadyTxDates == {date(2024, 1, 10), date(2024, 2, 10), date(2024, 3, 10)}
SteadyCategories == {"Food"}

InitSteady ==
    /\ transactions = <<>>
    /\ tx_seq = 0
    /\ budgets = <<>>
    /\ budget_seq = 0
    /\ categories = <<>>
    /\ category_seq = 0
    /\ today = date(2024, 3, 15)
    /\ ret = [op |-> "none"]

NextSteady ==
    \/ \E a \in SteadyAmounts, c \in SteadyCategories, d \in SteadyTxDates :
          add_transaction("expense", a, "rent", c, d)
    \/ \E c \in SteadyCategories, n \in 1..MaxLookback :
          call_calculate_recommended_budget(c, n)

SpecSteady == InitSteady /\ [][NextSteady]_vars

(***************************************************************************)
(* The budgets table: budgets set, reset and deleted, and their status     *)
(***************************************************************************)
TableCategories == {"Food", "Rent"}
TableAmounts == {0, 100, 120}
TablePeriods == {"monthly", "yearly", "weekly"}

InitTable ==
    /\ transactions = <<>>
    /\ tx_seq = 0
    /\ budgets = <<>>
    /\ budget_seq = 0
    /\ categories = <<>>
    /\ category_seq = 0
    /\ today = date(2024, 12, 15)
    /\ ret = [op |-> "none"]

NextTable ==
    \/ \E c \in TableCategories, a \in TableAmounts, p \in TablePeriods :
          set_budget(c, a, p)
    \/ \E i \in 1..MaxId : delete_budget(i)
    \/ \E c \in TableCategories, p \in TablePeriods :
          delete_budget_by_category_and_period(c, p)
    \/ \E c \in TableCategories, p \in TablePeriods : call_get_budget_status(c, p)

SpecTable == InitTable /\ [][NextTable]_vars

(***************************************************************************)
(* The ledger fed by hand and from CSV files                               *)
(***************************************************************************)
CsvRow(type, amount, description, category, text, restval) ==
    [keys |-> Columns, restval |-> restval, type |-> type, amount |-> amount,
     description |-> description, category |-> category, date |-> text]

\* a well-formed row and the rows that differ from it in one cell
CsvRows ==
    {CsvRow("Income", <<5, 0>>, "pay", "Salary", isoformat(date(2024, 2, 29)), {}),
     CsvRow(" Expense ", <<3, 0>>, "lunch", "Food", isoformat(date(2024, 3, 1)), {}),
     CsvRow("transfer", <<5, 0>>, "pay", "Salary", isoformat(date(2024, 2, 29)), {}),
     CsvRow("Income", <<49, 50, 51>>, "pay", "Salary", isoformat(date(2024, 2, 29)), {}),
     CsvRow("Income", <<62, 49, 62>>, "pay", "Salary", isoformat(date(2024, 2, 29)), {}),
     CsvRow("Income", <<0>>, "pay", "Salary", isoformat(date(2024, 2, 29)), {}),
     CsvRow("Income", <<5, 0>>, " ", "Salary", isoformat(date(2024, 2, 29)), {}),
     CsvRow("Income", <<5, 0>>, "pay", "", isoformat(date(2024, 2, 29)), {}),
     CsvRow("Income", <<5, 0>>, "pay", "Salary", isoformat(date(2024, 2, 30)), {}),
     CsvRow("Income", <<5, 0>>, "pay", "Salary", <<>>, {"date"})}

\* a row of a file whose header has no date column
CsvRowsNoDate ==
    {[keys |-> Columns \ {"date"}, restval |-> {}, type |-> "Income",
      amount |-> <<5, 0>>, description |-> "pay", category |-> "Salary"]}

CsvFiles ==
    UNION {[1..n -> CsvRows] \cup [1..n -> CsvRowsNoDate] : n \in 0..MaxId}

CsvTypes == {"income", "transfer"}
CsvAmounts == {-5, 0, 50}
CsvDates == {date(2024, 2, 29)}

InitCsv ==
    /\ transactions = <<>>
    /\ tx_seq = 0
    /\ budgets = <<>>
    /\ budget_seq = 0
    /\ categories = <<>>
    /\ category_seq = 0
    /\ today = date(2024, 12, 15)
    /\ ret = [op |-> "none"]

NextCsv ==
    \/ \E rows \in CsvFiles : import_from_csv(rows)
    \/ \E t \in CsvTypes, a \in CsvAmounts, d \in CsvDates :
          add_transaction(t, a, "pay", "Salary", d)
    \/ \E i \in 1..MaxId, t \in CsvTypes, a \in CsvAmounts, d \in CsvDates :
          update_transaction(i, t, a, "pay", "Salary", d)
    \/ \E i \in 1..MaxId : delete_transaction(i)

SpecCsv == InitCsv /\ [][NextCsv]_vars

(***************************************************************************)
(* A ledger written by add_transaction and update_transaction, exported    *)
(***************************************************************************)
ExportTypes == {"income", "expense"}
ExportAmounts == {50, 120}
ExportDescriptions == {"pay", " pay", ""}
ExportDates == {date(2024, 2, 29), date(2024, 3, 1)}

InitExport ==
    /\ transactions = <<>>
    /\ tx_seq = 0
    /\ budgets = <<>>
    /\ budget_seq = 0
    /\ categories = <<>>
    /\ category_seq = 0
    /\ today = date(2024, 12, 15)
    /\ ret = [op |-> "none"]

NextExport ==
    \/ \E t \in ExportTypes, a \in ExportAmounts, s \in ExportDescriptions,
          d \in ExportDates : add_transaction(t, a, s, "Salary", d)
    \/ \E i \in 1..MaxId, t \in ExportTypes, a \in ExportAmounts,
          s \in ExportDescriptions, d \in ExportDates :
          update_transaction(i, t, a, s, "Salary", d)
    \/ export_to_csv

SpecExport == InitExport /\ [][NextExport]_vars

(***************************************************************************)
(* The categories table beside a ledger whose transactions name categories *)
(***************************************************************************)
CategoryTypes == {"income", "expense", "transfer"}
CategoryNames == {"Food", "Salary"}
CategoryNewNames == {"Food", "Groceries"}
CategoryTxTypes == {"income", "expense"}
CategoryTxNames == {"Food"}

InitCategory ==
    /\ transactions = <<>>
    /\ tx_seq = 0
    /\ budgets = <<>>
    /\ budget_seq = 0
    /\ categories = <<>>
    /\ category_seq = 0
    /\ today = date(2024, 12, 15)
    /\ ret = [op |-> "none"]

NextCategory ==
    \/ \E t \in CategoryTypes, n \in CategoryNames : add_category(t, n, "")
    \/ \E i \in 1..MaxId, n \in CategoryNewNames : update_category(i, n, "")
    \/ \E i \in 1..MaxId : delete_category(i)
    \/ \E t \in CategoryTxTypes, c \in CategoryTxNames :
          add_transaction(t, 50, "lunch", c, date(2024, 12, 1))
    \/ \E i \in 1..MaxId : delete_transaction(i)

SpecCategory == InitCategory /\ [][NextCategory]_vars

(***************************************************************************)
(* Ledgers of up to MaxRows transactions of December 2024, listed by date  *)
(* range and ranked by the monthly report                                  *)
(***************************************************************************)
ListedRow(type, amount, day) ==
    [type |-> type, amount |-> amount, description |-> "lunch",
     category |-> "Food", date |-> isoformat(day)]

ListedRows ==
    {ListedRow("expense", 50, date(2024, 12, 1)),
     ListedRow("expense", 30, date(2024, 12, 31)),
     ListedRow("income", 50, date(2024, 12, 1))}

ListedWindows == {<<date(2024, 12, 1), date(2024, 12, 30)>>,
                  <<date(2024, 12, 2), date(2024, 12, 31)>>,
                  <<date(2024, 12, 1), date(2024, 12, 31)>>}

\* the ledger after tx_seq calls of add_transaction
InitListed ==
    /\ tx_seq \in 0..MaxRows
    /\ transactions \in [1..tx_seq -> ListedRows]
    /\ budgets = <<>>
    /\ budget_seq = 0
    /\ categories = <<>>
    /\ category_seq = 0
    /\ today = date(2024, 12, 15)
    /\ ret = [op |-> "none"]

NextListed ==
    \/ \E w \in ListedWindows : call_get_transactions_by_date_range(w[1], w[2])
    \/ generate_monthly_report(2024, 12)

SpecListed == InitListed /\ [][NextListed]_vars

(***************************************************************************)
(* The trailing months of the chart, read in January and in March          *)
(***************************************************************************)
ChartTypes == {"income", "expense"}
ChartAmounts == {30, 50}
ChartDates == {date(2023, 11, 30), date(2023, 12, 31), date(2024, 1, 1), date(2024, 3, 1)}
ChartDays == {date(2024, 1, 15), date(2024, 3, 15)}

InitChart ==
    /\ transactions = <<>>
    /\ tx_seq = 0
    /\ budgets = <<>>
    /\ budget_seq = 0
    /\ categories = <<>>
    /\ category_seq = 0
    /\ today \in ChartDays
    /\ ret = [op |-> "none"]

NextChart ==
    \/ \E t \in ChartTypes, a \in ChartAmounts, d \in ChartDates :
          add_transaction(t, a, "lunch", "Food", d)
    \/ \E months \in 0..MaxChartMonths : call_get_monthly_data_for_chart(months)

SpecChart == InitChart /\ [][NextChart]_vars

(***************************************************************************)
(* The ledger across a year boundary: the reports and the period queries   *)
(* of a month and a year whose previous period may hold transactions       *)
(***************************************************************************)
PeriodTypes == {"income", "expense"}
PeriodKinds == {<<"income", 30>>, <<"income", 50>>, <<"expense", 30>>}
PeriodCategories == {"Food"}
PeriodDates == {date(2024, 11, 30), date(2024, 12, 31), date(2025, 1, 1)}
PeriodMonths == {<<2024, 12>>, <<2025, 1>>}
PeriodYears == {2024, 2025}
PeriodQueryMonths == {<<2024, 10>>, <<2024, 12>>}
PeriodQueryYears == {2023, 2024}
PeriodWindows == {<<date(2024, 12, 1), date(2024, 12, 30)>>,
                  <<date(2024, 12, 1), date(2024, 12, 31)>>}

InitPeriods ==
    /\ transactions = <<>>
    /\ tx_seq = 0
    /\ budgets = <<>>
    /\ budget_seq = 0
    /\ categories = <<>>
    /\ category_seq = 0
    /\ today = date(2025, 1, 15)
    /\ ret = [op |-> "none"]

NextPeriods ==
    \/ \E k \in PeriodKinds, c \in PeriodCategories, d \in PeriodDates :
          add_transaction(k[1], k[2], "lunch", c, d)
    \/ \E i \in 1..MaxId : delete_transaction(i)
    \/ \E ym \in PeriodMonths : generate_monthly_report(ym[1], ym[2])
    \/ \E y \in PeriodYears : generate_yearly_report(y)
    \/ \E ym \in PeriodQueryMonths : call_get_monthly_totals(ym[1], ym[2])
    \/ \E y \in PeriodQueryYears : call_get_yearly_totals(y)
    \/ \E w \in PeriodWindows, t \in PeriodTypes :
          call_get_category_totals_for_period(w[1], w[2], t)
    \/ \E c \in PeriodCategories, w \in PeriodWindows :
          call_get_total_by_category_and_date_range(c, w[1], w[2])

SpecPeriods == InitPeriods /\ [][NextPeriods]_vars

(***************************************************************************)
(* Vocabulary of the properties                                            *)
(***************************************************************************)
\* the calendar day an ISO date text names, as <<year, month, day>>
DayOf(text) ==
    << 1000 * text[1] + 100 * text[2] + 10 * text[3] + text[4],
       10 * text[6] + text[7],
       10 * text[9] + text[10] >>

\* calendar order on <<year, month, day>>
DayBefore(a, b) ==
    \/ a[1] < b[1]
    \/ a[1] = b[1] /\ a[2] < b[2]
    \/ a[1] = b[1] /\ a[2] = b[2] /\ a[3] < b[3]

DayNotAfter(a, b) == a = b \/ DayBefore(a, b)

\* the ids of the stored transactions dated in calendar month (year, month)
InMonth(year, month) ==
    {i \in DOMAIN transactions :
        DayOf(transactions[i].date)[1] = year /\ DayOf(transactions[i].date)[2] = month}

\* the ids of the stored transactions dated in calendar year year
InYear(year) ==
    {i \in DOMAIN transactions : DayOf(transactions[i].date)[1] = year}

OfType(S, type) == {i \in S : transactions[i].type = type}

\* the calendar months and years around the dates the ledger is fed
AllMonths == {<<2024, 1>>, <<2024, 2>>, <<2024, 3>>, <<2024, 4>>,
              <<2024, 11>>, <<2024, 12>>, <<2025, 1>>, <<2025, 2>>}
AllYears == 2023..2026

IsReport == ret.op \in {"generate_monthly_report", "generate_yearly_report"}

\* the current budget window of a period, as <<first day, first day after>>
WindowOf(period, day) ==
    IF period = "monthly"
    THEN << <<day.year, day.month, 1>>,
            IF day.month = 12 THEN <<day.year + 1, 1, 1>>
            ELSE <<day.year, day.month + 1, 1>> >>
    ELSE << <<day.year, 1, 1>>, <<day.year + 1, 1, 1>> >>

\* the ids of the transactions of a category dated from first up to but
\* excluding after
SpentIn(category, first, after) ==
    {i \in DOMAIN transactions :
        /\ transactions[i].category = category
        /\ DayNotAfter(first, DayOf(transactions[i].date))
        /\ DayBefore(DayOf(transactions[i].date), after)}

(***************************************************************************)
(* C1: get_budget_status(category, period) reports as spent_amount the sum *)
(* of the amounts of exactly the transactions of the category dated d with *)
(* period_start <= d < period_end; a transaction dated on period_end is    *)
(* not counted.                                                            *)
(***************************************************************************)
C1_SpentInHalfOpenWindow ==
    (ret.op = "get_budget_status" /\ ret.value # None) =>
        LET window == WindowOf(ret.args[2], today)
        IN  ret.value.spent_amount
               = SumAmount(transactions, SpentIn(ret.args[1], window[1], window[2]))

(***************************************************************************)
(* C2: get_budget_alerts(threshold) yields for each defined budget at most *)
(* one alert, decided by that budget's percentage_used alone: over_budget  *)
(* iff percentage_used >= 100, approaching_limit iff threshold <=          *)
(* percentage_used < 100, none otherwise; no alert for an undefined budget.*)
(***************************************************************************)
AlertsFor(alerts, category, period) ==
    {n \in 1..Len(alerts) :
        alerts[n].category = category /\ alerts[n].period = period}

C2_AlertClassification ==
    ret.op = "get_budget_alerts" =>
        \A c \in Categories, p \in Periods :
            LET status == get_budget_status(c, p)
                mine == AlertsFor(ret.value, c, p)
                types == {ret.value[n].type : n \in mine}
            IN  IF status = None THEN mine = {}
                ELSE LET pct == status.percentage_used
                         over == pct.num >= 100 * pct.den
                         near == pct.num * ret.args[1].den >= ret.args[1].num * pct.den
                                    /\ ~over
                     IN  /\ Cardinality(mine) <= 1
                         /\ ("over_budget" \in types) <=> over
                         /\ ("approaching_limit" \in types) <=> near
                         /\ (~over /\ ~near) => mine = {}
                         /\ \A n \in mine : ret.value[n].percentage_used = pct

\* at threshold 80 the monthly Food budget of 100 with a spend of exactly 80
\* is approaching_limit while the yearly Food budget is over_budget
C2_Witness ==
    /\ ret.op = "get_budget_alerts"
    /\ ret.args = <<Whole(80)>>
    /\ get_budget_status("Food", "monthly") # None
    /\ get_budget_status("Food", "monthly").budget.amount = 100
    /\ get_budget_status("Food", "monthly").spent_amount = 80
    /\ Len(ret.value) = 2
    /\ ret.value[1] = [type |-> "approaching_limit", category |-> "Food",
                       period |-> "monthly", percentage_used |-> Whole(80)]
    /\ ret.value[2].type = "over_budget"

(***************************************************************************)
(* C3: for an existing budget of amount A > 0 whose status reports the     *)
(* spend S, get_budget_status returns remaining_amount = A - S,            *)
(* percentage_used = S / A * 100 and is_over_budget = (S > A); S = 120 and *)
(* A = 100 give 120 and over budget, S = A gives 100 and not over budget.  *)
(***************************************************************************)
C3_StatusArithmetic ==
    /\ (ret.op = "get_budget_status" /\ ret.value # None) =>
          LET A == ret.value.budget.amount
              S == ret.value.spent_amount
              pct == ret.value.percentage_used
          IN  /\ A > 0
              /\ ret.value.budget = get_budget(ret.args[1], ret.args[2])
              /\ ret.value.remaining_amount = A - S
              /\ pct.num * A = S * 100 * pct.den
              /\ pct.den > 0
              /\ ret.value.is_over_budget = (S > A)
              /\ S = A => (pct = Whole(100) /\ ret.value.is_over_budget = FALSE)
    /\ percentage_used(120, 100) = Whole(120)
    /\ is_over_budget(120, 100) = TRUE

\* get_budget_status returned the status of a budget spent exactly
C3_Witness ==
    /\ ret.op = "get_budget_status"
    /\ ret.value # None
    /\ ret.value.spent_amount = ret.value.budget.amount
    /\ ret.value.percentage_used = Whole(100)
    /\ ret.value.remaining_amount = 0

(***************************************************************************)
(* C4: generate_monthly_report and generate_yearly_report never return the *)
(* error text in place of the report, whatever the ledger holds (a zero    *)
(* divisor is replaced by 0 or the percentage is left out).                *)
(***************************************************************************)
C4_ReportNeverFails == IsReport => ret.value.error = FALSE

(***************************************************************************)
(* C5: a report carries a savings rate exactly when the period's expense   *)
(* total is > 0, and then it is (income - expense) / income * 100.         *)
(***************************************************************************)
C5_SavingsRateIffExpense ==
    IsReport =>
        IF ret.totals.expense > 0
        THEN /\ ret.value.error = FALSE
             /\ ret.value.savings_rate =
                    Frac((ret.totals.income - ret.totals.expense) * 100, ret.totals.income)
        ELSE /\ ret.value.error = FALSE
             /\ ret.value.savings_rate = None

(***************************************************************************)
(* C6: after any sequence of add_transaction, update_transaction and       *)
(* delete_transaction, for every month the income and expense of           *)
(* get_monthly_totals add up to the sum of the amounts of all transactions *)
(* dated in that month, and likewise get_yearly_totals for every year.     *)
(***************************************************************************)
C6_PartitionComplete ==
    /\ \A ym \in AllMonths :
          LET totals == get_monthly_totals(ym[1], ym[2])
          IN  totals.income + totals.expense
                 = SumAmount(transactions, InMonth(ym[1], ym[2]))
    /\ \A y \in AllYears :
          LET totals == get_yearly_totals(y)
          IN  totals.income + totals.expense = SumAmount(transactions, InYear(y))

\* get_monthly_totals returned the totals of a month that holds an income
\* and an expense
C6_Witness ==
    /\ ret.op = "get_monthly_totals"
    /\ ret.value.income > 0
    /\ ret.value.expense > 0

(***************************************************************************)
(* C7: the per-category totals a report obtains for a kind (inclusive      *)
(* window first day .. last day of the period) sum to the total for that   *)
(* kind it obtains from get_monthly_totals / get_yearly_totals (half-open  *)
(* window).                                                                *)
(***************************************************************************)
C7_CategoriesSumToKind ==
    IsReport =>
        /\ SumValues(ret.income_categories, DOMAIN ret.income_categories)
              = ret.totals.income
        /\ SumValues(ret.expense_categories, DOMAIN ret.expense_categories)
              = ret.totals.expense

\* the monthly report of December 2024 was built over a ledger with two
\* expense categories, one of them spent on the last day of the month
C7_Witness ==
    /\ ret.op = "generate_monthly_report"
    /\ ret.args = <<2024, 12>>
    /\ Cardinality(DOMAIN ret.expense_categories) = 2
    /\ \E i \in DOMAIN transactions :
          /\ transactions[i].type = "expense"
          /\ DayOf(transactions[i].date) = <<2024, 12, 31>>

(***************************************************************************)
(* C8: get_monthly_totals(year, month) sums, per kind, the transactions    *)
(* dated from (year, month, 1) up to but excluding (year, month + 1, 1),   *)
(* or (year + 1, 1, 1) for month 12: the last day of the month counts, the *)
(* first day of the following month does not.                              *)
(***************************************************************************)
NextMonthFirst(year, month) ==
    IF month = 12 THEN <<year + 1, 1, 1>> ELSE <<year, month + 1, 1>>

InMonthWindow(year, month) ==
    {i \in DOMAIN transactions :
        /\ DayNotAfter(<<year, month, 1>>, DayOf(transactions[i].date))
        /\ DayBefore(DayOf(transactions[i].date), NextMonthFirst(year, month))}

C8_MonthWindowHalfOpen ==
    \A ym \in AllMonths :
        LET totals == get_monthly_totals(ym[1], ym[2])
            window == InMonthWindow(ym[1], ym[2])
        IN  /\ DOMAIN totals = {"income", "expense"}
            /\ \A k \in {"income", "expense"} :
                  totals[k] = SumAmount(transactions, OfType(window, k))

\* get_monthly_totals(2024, 12) counted the expense of December 31 and left
\* out the expense of January 1, 2025
C8_Witness ==
    /\ ret.op = "get_monthly_totals"
    /\ ret.args = <<2024, 12>>
    /\ \E i, j \in DOMAIN transactions :
          /\ transactions[i].type = "expense"
          /\ transactions[j].type = "expense"
          /\ DayOf(transactions[i].date) = <<2024, 12, 31>>
          /\ DayOf(transactions[j].date) = <<2025, 1, 1>>
          /\ ret.value.expense = transactions[i].amount

\* the lookback window of calculate_recommended_budget: the first day of the
\* month months before the month of day (year wrapping)
LookbackFirst(day, months) ==
    LET index == day.year * 12 + (day.month - 1) - months
    IN  <<index \div 12, (index % 12) + 1, 1>>

\* the ids of the transactions of a category dated in the lookback window,
\* the current date included
InLookback(category, months) ==
    {i \in DOMAIN transactions :
        /\ transactions[i].category = category
        /\ DayNotAfter(LookbackFirst(today, months), DayOf(transactions[i].date))
        /\ DayNotAfter(DayOf(transactions[i].date),
                       <<today.year, today.month, today.day>>)}

(***************************************************************************)
(* C9: calculate_recommended_budget(category, n) returns None, not 0,      *)
(* whenever the category's total over its lookback window is zero.         *)
(***************************************************************************)
C9_NoHistoryNoRecommendation ==
    ret.op = "calculate_recommended_budget" =>
        (SumAmount(transactions, InLookback(ret.args[1], ret.args[2])) = 0
            => ret.value = None)

\* None was returned for a category whose transactions all lie outside the
\* window while the other category has spend inside it
C9_Witness ==
    /\ ret.op = "calculate_recommended_budget"
    /\ ret.value = None
    /\ \E i, j \in DOMAIN transactions :
          /\ transactions[i].category = ret.args[1]
          /\ transactions[j].category # ret.args[1]
          /\ j \in InLookback(transactions[j].category, ret.args[2])

PreviousPeriod ==
    IF ret.op = "generate_monthly_report"
    THEN IF ret.args[2] = 1
         THEN InMonth(ret.args[1] - 1, 12)
         ELSE InMonth(ret.args[1], ret.args[2] - 1)
    ELSE InYear(ret.args[1] - 1)

C11_ComparisonIffPreviousData ==
    IsReport =>
        LET prev_income == SumAmount(transactions, OfType(PreviousPeriod, "income"))
            prev_expense == SumAmount(transactions, OfType(PreviousPeriod, "expense"))
            emitted == ~ret.value.error /\ ret.value.comparison # None
        IN  /\ emitted <=> (prev_income > 0 \/ prev_expense > 0)
            /\ emitted =>
                  /\ (ret.value.comparison.income_pct_change # None) <=> prev_income > 0
                  /\ (ret.value.comparison.expense_pct_change # None) <=> prev_expense > 0


(***************************************************************************)
(* C12: get_monthly_data_for_chart(N) for N >= 1 returns exactly N         *)
(* entries, one per calendar month, oldest first, covering consecutive     *)
(* months with year wrap-around and ending with the current month: 3       *)
(* months from March of Y give [Jan Y, Feb Y, Mar Y], from January of Y    *)
(* [Nov Y-1, Dec Y-1, Jan Y]; each entry has net = income - expense.       *)
(***************************************************************************)
MonthAfter(year, month) ==
    IF month = 12 THEN <<year + 1, 1>> ELSE <<year, month + 1>>

MonthsOf(data) == [n \in 1..Len(data) |-> <<data[n].year, data[n].month>>]

C12_ChartMonthsChronological ==
    (ret.op = "get_monthly_data_for_chart" /\ ret.args[1] >= 1) =>
        LET N == ret.args[1]
            data == ret.value
        IN  /\ Len(data) = N
            /\ MonthsOf(data)[N] = <<today.year, today.month>>
            /\ \A n \in 1..(N - 1) :
                  MonthsOf(data)[n + 1] = MonthAfter(data[n].year, data[n].month)
            /\ \A n \in 1..N :
                  LET month == InMonth(data[n].year, data[n].month)
                  IN  /\ data[n].income = SumAmount(transactions, OfType(month, "income"))
                      /\ data[n].expense = SumAmount(transactions, OfType(month, "expense"))
                      /\ data[n].net = data[n].income - data[n].expense
            /\ (N = 3 /\ today.month = 3) =>
                  MonthsOf(data) = << <<today.year, 1>>, <<today.year, 2>>, <<today.year, 3>> >>
            /\ (N = 3 /\ today.month = 1) =>
                  MonthsOf(data) = << <<today.year - 1, 11>>, <<today.year - 1, 12>>,
                                      <<today.year, 1>> >>

\* three months read in January 2024, with December 2023 holding an income
\* of 50 and an expense of 30
C12_Witness ==
    /\ ret.op = "get_monthly_data_for_chart"
    /\ ret.args = <<3>>
    /\ today = date(2024, 1, 15)
    /\ MonthsOf(ret.value) = << <<2023, 11>>, <<2023, 12>>, <<2024, 1>> >>
    /\ ret.value[2].income = 50
    /\ ret.value[2].expense = 30
    /\ ret.value[2].net = 20


(***************************************************************************)
(* C13: after any sequence of set_budget and delete_budget calls there is  *)
(* at most one budget per (category, period); set_budget on an existing    *)
(* (category, period) keeps that budget's id, changes only its amount, and *)
(* leaves the number of budgets and every other budget unchanged.          *)
(***************************************************************************)
BudgetsOf(category, period) ==
    {i \in DOMAIN budgets :
        budgets[i].category = category /\ budgets[i].period = period}

OneBudgetPerKey ==
    \A i, j \in DOMAIN budgets :
        (budgets[i].category = budgets[j].category
            /\ budgets[i].period = budgets[j].period) => i = j

SetOnExistingInPlace ==
    (ret'.op = "set_budget" /\ BudgetsOf(ret'.args[1], ret'.args[3]) # {}) =>
        /\ DOMAIN budgets' = DOMAIN budgets
        /\ \A i \in DOMAIN budgets :
              IF i \in BudgetsOf(ret'.args[1], ret'.args[3])
              THEN /\ budgets'[i].category = budgets[i].category
                   /\ budgets'[i].period = budgets[i].period
                   /\ budgets'[i].amount =
                         IF ret'.args[2] > 0 THEN ret'.args[2] ELSE budgets[i].amount
              ELSE budgets'[i] = budgets[i]

C13_OneBudgetPerKey == []OneBudgetPerKey /\ [][SetOnExistingInPlace]_vars

\* budget 1 was created before budget 2 and the last call reset it to 120
C13_Witness ==
    /\ ret.op = "set_budget"
    /\ ret.args = <<"Food", 120, "monthly">>
    /\ ret.value = TRUE
    /\ DOMAIN budgets = {1, 2}
    /\ budgets[1] = [category |-> "Food", amount |-> 120, period |-> "monthly"]

(***************************************************************************)
(* C14: get_budget_status(category, period) returns None exactly when no   *)
(* budget exists for that (category, period), including after that budget  *)
(* was deleted, and never raises for a missing budget; when the budget     *)
(* exists it returns a status.                                             *)
(***************************************************************************)
IsStatusOf(value, category, period) ==
    /\ DOMAIN value = {"budget", "spent_amount", "remaining_amount",
                       "percentage_used", "is_over_budget",
                       "period_start", "period_end"}
    /\ value.budget.category = category
    /\ value.budget.period = period

C14_StatusAbsentIffNoBudget ==
    /\ \A c \in TableCategories, p \in TablePeriods :
          IF BudgetsOf(c, p) = {}
          THEN get_budget_status(c, p) = None
          ELSE IsStatusOf(get_budget_status(c, p), c, p)
    /\ ret.op = "get_budget_status" =>
          IF BudgetsOf(ret.args[1], ret.args[2]) = {}
          THEN ret.value = None
          ELSE IsStatusOf(ret.value, ret.args[1], ret.args[2])

\* both budgets ever created were deleted, and the status asked after that
\* is None
C14_Witness ==
    /\ ret.op = "get_budget_status"
    /\ ret.args = <<"Food", "monthly">>
    /\ ret.value = None
    /\ budget_seq = 2
    /\ budgets = <<>>


(***************************************************************************)
(* C15: import_from_csv treats each row independently: a row with a        *)
(* missing field, an unknown type, a non-numeric or non-positive amount,   *)
(* an empty description or category, or an unparseable date is skipped,    *)
(* every later row is still processed, and exactly the valid rows of the   *)
(* file are added as transactions.                                         *)
(***************************************************************************)
ValidRow(row) ==
    /\ Columns \subseteq row.keys
    /\ row.restval = {}
    /\ strip(lower(row.type)) \in {"income", "expense"}
    /\ "value" \in DOMAIN float(row.amount)
    /\ float(row.amount).value > 0
    /\ strip(row.description) # ""
    /\ strip(row.category) # ""
    /\ strptime(row.date) # Raised("ValueError")

AsTransaction(row) ==
    [type |-> strip(lower(row.type)), amount |-> float(row.amount).value,
     description |-> strip(row.description), category |-> strip(row.category),
     date |-> row.date]

ValidRowsAdded ==
    ret'.op = "import_from_csv" =>
        LET valid == SelectSeq(ret'.args[1], ValidRow)
        IN  /\ DOMAIN transactions' =
                  DOMAIN transactions \cup (tx_seq + 1)..(tx_seq + Len(valid))
            /\ \A i \in DOMAIN transactions : transactions'[i] = transactions[i]
            /\ \A n \in 1..Len(valid) :
                  transactions'[tx_seq + n] = AsTransaction(valid[n])

C15_ExactlyValidRowsAdded == [][ValidRowsAdded]_vars


(***************************************************************************)
(* C16: delete_category(id) returns False and leaves the categories        *)
(* unchanged whenever some stored transaction's category text equals that  *)
(* category's name (whatever the transaction's kind); it removes the       *)
(* category only when no transaction carries that name.                    *)
(***************************************************************************)
NameCarried(id) ==
    \E t \in DOMAIN transactions : transactions[t].category = categories[id].name

DeleteOnlyUnused ==
    ret'.op = "delete_category" =>
        LET id == ret'.args[1]
        IN  IF id \notin DOMAIN categories
            THEN ret'.value = FALSE /\ categories' = categories
            ELSE IF NameCarried(id)
            THEN ret'.value = FALSE /\ categories' = categories
            ELSE /\ ret'.value = TRUE
                 /\ DOMAIN categories' = DOMAIN categories \ {id}
                 /\ \A i \in DOMAIN categories' : categories'[i] = categories[i]

C16_DeleteCategoryOnlyUnused == [][DeleteOnlyUnused]_vars

\* the expense category Food is kept because an income transaction is
\* filed under Food
C16_Witness ==
    /\ ret.op = "delete_category"
    /\ ret.args = <<1>>
    /\ ret.value = FALSE
    /\ 1 \in DOMAIN categories
    /\ categories[1].type = "expense"
    /\ categories[1].name = "Food"
    /\ \E t \in DOMAIN transactions : transactions[t].category = "Food"
    /\ \A t \in DOMAIN transactions : transactions[t].type = "income"

(***************************************************************************)
(* C17: after any sequence of add_category, update_category and            *)
(* delete_category, no two categories share the same (kind, name);         *)
(* add_category of an existing (kind, name) and update_category to a name  *)
(* already used by another category of the same kind return False and      *)
(* change nothing.                                                         *)
(***************************************************************************)
CategoriesOf(type, name) ==
    {i \in DOMAIN categories :
        categories[i].type = type /\ categories[i].name = name}

OneCategoryPerKindAndName ==
    \A i, j \in DOMAIN categories :
        (categories[i].type = categories[j].type
            /\ categories[i].name = categories[j].name) => i = j

DuplicateRefused ==
    /\ (ret'.op = "add_category"
           /\ CategoriesOf(ret'.args[1], ret'.args[2]) # {}) =>
          (ret'.value = FALSE /\ categories' = categories)
    /\ (ret'.op = "update_category"
           /\ ret'.args[1] \in DOMAIN categories
           /\ CategoriesOf(categories[ret'.args[1]].type, ret'.args[2])
                 \ {ret'.args[1]} # {}) =>
          (ret'.value = FALSE /\ categories' = categories)

C17_OneCategoryPerKindAndName ==
    []OneCategoryPerKindAndName /\ [][DuplicateRefused]_vars

\* renaming the expense category Salary to Food, which is already an
\* expense category, was refused
C17_Witness ==
    /\ ret.op = "update_category"
    /\ ret.args = <<2, "Food">>
    /\ ret.value = FALSE
    /\ DOMAIN categories = {1, 2}
    /\ categories[1].type = "expense" /\ categories[1].name = "Food"
    /\ categories[2].type = "expense" /\ categories[2].name = "Salary"


(***************************************************************************)
(* C18: after any sequence of add_transaction, update_transaction,         *)
(* delete_transaction and import_from_csv, every stored transaction has a  *)
(* unique id, a kind that is income or expense, and an amount > 0; an add  *)
(* or update with a non-positive amount or an unknown kind fails with an   *)
(* error surfaced to the caller (IntegrityError; False from an update of   *)
(* an id that is not stored) and leaves the stored transactions unchanged. *)
(***************************************************************************)
LedgerWellFormed ==
    /\ DOMAIN transactions \subseteq 1..tx_seq
    /\ \A i \in DOMAIN transactions :
          /\ transactions[i].type \in {"income", "expense"}
          /\ transactions[i].amount > 0

Refused ==
    /\ transactions' = transactions
    /\ "raised" \in DOMAIN ret'
    /\ ret'.raised = "IntegrityError"

InvalidWriteRefused ==
    ret'.op \in {"add_transaction", "update_transaction"} =>
        \A t \in CsvTypes, a \in CsvAmounts, d \in CsvDates :
            (t \notin {"income", "expense"} \/ a <= 0) =>
                /\ add_transaction(t, a, "pay", "Salary", d) => Refused
                /\ \A i \in 1..MaxId :
                      update_transaction(i, t, a, "pay", "Salary", d) =>
                          IF i \in DOMAIN transactions THEN Refused
                          ELSE /\ transactions' = transactions
                               /\ ret' = [op |-> "update_transaction", value |-> FALSE]

C18_StoredTransactionsValid == []LedgerWellFormed /\ [][InvalidWriteRefused]_vars

\* an update of the imported expense of 30 was refused with IntegrityError
C18_Witness ==
    /\ ret.op = "update_transaction"
    /\ "raised" \in DOMAIN ret
    /\ 1 \in DOMAIN transactions
    /\ transactions[1].type = "expense"
    /\ transactions[1].amount = 30


(***************************************************************************)
(* C19: for a window containing no transactions, get_monthly_totals and    *)
(* get_yearly_totals return income 0 and expense 0,                        *)
(* get_category_totals_for_period returns an empty mapping, and            *)
(* get_total_by_category_and_date_range returns 0; none of them raises.    *)
(***************************************************************************)
\* the ids of the transactions dated from first to last, both included
DatedWithin(first, last) ==
    {i \in DOMAIN transactions :
        /\ DayNotAfter(<<first.year, first.month, first.day>>, DayOf(transactions[i].date))
        /\ DayNotAfter(DayOf(transactions[i].date), <<last.year, last.month, last.day>>)}

C19_EmptyWindowGivesZero ==
    /\ (ret.op = "get_monthly_totals" /\ InMonth(ret.args[1], ret.args[2]) = {}) =>
          ret.value = [income |-> 0, expense |-> 0]
    /\ (ret.op = "get_yearly_totals" /\ InYear(ret.args[1]) = {}) =>
          ret.value = [income |-> 0, expense |-> 0]
    /\ (ret.op = "get_category_totals_for_period"
           /\ DatedWithin(ret.args[1], ret.args[2]) = {}) =>
          DOMAIN ret.value = {}
    /\ (ret.op = "get_total_by_category_and_date_range"
           /\ DatedWithin(ret.args[2], ret.args[3]) = {}) =>
          ret.value = 0

\* the Food total of December 1 to 30 asked of a ledger whose only
\* transactions are dated December 31
C19_Witness ==
    /\ ret.op = "get_total_by_category_and_date_range"
    /\ ret.args = <<"Food", date(2024, 12, 1), date(2024, 12, 30)>>
    /\ transactions # <<>>
    /\ \A i \in DOMAIN transactions : DayOf(transactions[i].date) = <<2024, 12, 31>>
    /\ ret.value = 0


(***************************************************************************)
(* C20: the yearly report's monthly trend table has exactly 12 rows,       *)
(* January through December in order, for every ledger content, including  *)
(* a year in which some or all months have no transactions (those rows     *)
(* show income 0, expense 0, net 0).                                       *)
(***************************************************************************)
TrendTableOf(value, year) ==
    /\ ~value.error
    /\ Len(value.monthly_trends) = 12
    /\ \A m \in 1..12 :
          LET row == value.monthly_trends[m]
          IN  /\ row.month = m
              /\ row.income = SumAmount(transactions, OfType(InMonth(year, m), "income"))
              /\ row.expense = SumAmount(transactions, OfType(InMonth(year, m), "expense"))
              /\ row.net = row.income - row.expense
              /\ InMonth(year, m) = {} =>
                    (row.income = 0 /\ row.expense = 0 /\ row.net = 0)

C20_TrendTableTwelveRows ==
    ret.op = "generate_yearly_report" => TrendTableOf(ret.value, ret.args[1])


(***************************************************************************)
(* C21: get_transactions_by_date_range(start, end) returns exactly the     *)
(* transactions with start <= date <= end (both ends inclusive), ordered   *)
(* by date descending and, among equal dates, by id descending.            *)
(***************************************************************************)
C21_RangeListInclusiveNewestFirst ==
    ret.op = "get_transactions_by_date_range" =>
        LET list == ret.value
        IN  /\ {list[n].id : n \in 1..Len(list)} = DatedWithin(ret.args[1], ret.args[2])
            /\ Len(list) = Cardinality(DatedWithin(ret.args[1], ret.args[2]))
            /\ \A n \in 1..Len(list) :
                  /\ list[n].type = transactions[list[n].id].type
                  /\ list[n].amount = transactions[list[n].id].amount
                  /\ list[n].description = transactions[list[n].id].description
                  /\ list[n].category = transactions[list[n].id].category
                  /\ list[n].date = transactions[list[n].id].date
            /\ \A n, m \in 1..Len(list) :
                  n < m =>
                      \/ DayBefore(DayOf(list[m].date), DayOf(list[n].date))
                      \/ /\ list[m].date = list[n].date
                         /\ list[m].id < list[n].id

\* December 1 to 31 asked of a ledger with transactions on both days: a row
\* of December 31 comes before a row of December 1 entered after it, and two
\* rows of one day come latest id first
C21_Witness ==
    /\ ret.op = "get_transactions_by_date_range"
    /\ ret.args = <<date(2024, 12, 1), date(2024, 12, 31)>>
    /\ Len(ret.value) >= 3
    /\ \E n \in 1..(Len(ret.value) - 1) :
          /\ ret.value[n].date # ret.value[n + 1].date
          /\ ret.value[n].id < ret.value[n + 1].id
    /\ \E n \in 1..(Len(ret.value) - 1) :
          /\ ret.value[n].date = ret.value[n + 1].date
          /\ ret.value[n].id > ret.value[n + 1].id

(***************************************************************************)
(* C22: the monthly report's top-expenses section lists min(5, number of   *)
(* expense transactions in the month) expense transactions in              *)
(* non-increasing amount order, every listed amount being >= every         *)
(* unlisted expense amount of the month; expenses with equal amounts keep  *)
(* their retrieval order (date descending, then id descending).            *)
(***************************************************************************)
TopExpensesOf(value, year, month) ==
    LET expenses == OfType(InMonth(year, month), "expense")
        count == IF Cardinality(expenses) < 5 THEN Cardinality(expenses) ELSE 5
    IN  /\ ~value.error
        /\ Len(value.top_expenses) = count
        /\ Cardinality({value.top_expenses[n].id : n \in 1..count}) = count
        /\ \A n \in 1..count :
              /\ value.top_expenses[n].id \in expenses
              /\ value.top_expenses[n].amount = transactions[value.top_expenses[n].id].amount
        /\ \A n, m \in 1..count :
              n < m =>
                  \/ value.top_expenses[n].amount > value.top_expenses[m].amount
                  \/ /\ value.top_expenses[n].amount = value.top_expenses[m].amount
                     /\ \/ DayBefore(DayOf(value.top_expenses[m].date),
                                     DayOf(value.top_expenses[n].date))
                        \/ /\ value.top_expenses[m].date = value.top_expenses[n].date
                           /\ value.top_expenses[m].id < value.top_expenses[n].id
        /\ \A n \in 1..count :
              \A i \in expenses \ {value.top_expenses[k].id : k \in 1..count} :
                  value.top_expenses[n].amount >= transactions[i].amount

C22_TopFiveExpenses ==
    ret.op = "generate_monthly_report" =>
        TopExpensesOf(ret.value, ret.args[1], ret.args[2])


(***************************************************************************)
(* C23: in the yearly report the best net month is the earliest month in   *)
(* Jan..Dec order with the maximum net, the worst net month the earliest   *)
(* with the minimum net, and the highest-income and highest-expense months *)
(* the earliest with the maximum income and expense; for a year with no    *)
(* transactions all four highlights are January.                           *)
(***************************************************************************)
IncomeOf(year, month) == SumAmount(transactions, OfType(InMonth(year, month), "income"))
ExpenseOf(year, month) == SumAmount(transactions, OfType(InMonth(year, month), "expense"))
NetOf(year, month) == IncomeOf(year, month) - ExpenseOf(year, month)

Carrying(name) == {t \in DOMAIN transactions : transactions[t].category = name}

RenameLeavesTransactions ==
    ret'.op = "update_category" =>
        /\ transactions' = transactions
        /\ (ret'.value /\ Carrying(ret'.args[2]) = {}) =>
              \A t \in DOMAIN transactions' :
                  transactions'[t].category # categories'[ret'.args[1]].name

DeleteOfUnusedNameSucceeds ==
    (ret'.op = "delete_category"
        /\ ret'.args[1] \in DOMAIN categories
        /\ Carrying(categories[ret'.args[1]].name) = {}) =>
        /\ ret'.value = TRUE
        /\ ret'.args[1] \notin DOMAIN categories'
        /\ transactions' = transactions

C24_RenameDoesNotCascade ==
    [][RenameLeavesTransactions /\ DeleteOfUnusedNameSucceeds]_vars

\* the only category ever created now bears the name Groceries, which
\* add_category never gives, while the transactions are still filed under Food
C24_Witness ==
    /\ ret.op = "update_category"
    /\ ret.args = <<1, "Groceries">>
    /\ ret.value = TRUE
    /\ category_seq = 1
    /\ categories[1].name = "Groceries"
    /\ transactions # <<>>
    /\ \A t \in DOMAIN transactions : transactions[t].category = "Food"


(***************************************************************************)
(* C25: get_budget_alerts yields an over_budget alert for a budget exactly *)
(* when the status get_budget_status gives for that budget has             *)
(* is_over_budget true, the case of a spend equal to the budget amount     *)
(* included.                                                               *)
(***************************************************************************)
OverBudgetAlerted(alerts, category, period) ==
    \E n \in AlertsFor(alerts, category, period) : alerts[n].type = "over_budget"

C25_OverBudgetAlertIffStatusOver ==
    ret.op = "get_budget_alerts" =>
        \A c \in Categories, p \in Periods :
            get_budget_status(c, p) # None =>
                (OverBudgetAlerted(ret.value, c, p)
                    <=> get_budget_status(c, p).is_over_budget)


(***************************************************************************)
(* C26: the spent_amount of a budget status counts only expense            *)
(* transactions: adding an income transaction whose category text is the   *)
(* budget's category, dated in the current window, changes neither         *)
(* spent_amount, percentage_used, is_over_budget nor the alerts.           *)
(***************************************************************************)
IncomeAdded ==
    /\ tx_seq' = tx_seq + 1
    /\ transactions'[tx_seq'].type = "income"

C26_IncomeLeavesStatusAlone ==
    [][IncomeAdded =>
          /\ \A c \in SpentCategories, p \in Periods :
                get_budget_status(c, p)' = get_budget_status(c, p)
          /\ \A w \in SpentThresholds :
                get_budget_alerts(w)' = get_budget_alerts(w)]_vars


(***************************************************************************)
(* C27: for every budget and ledger, the classification the menu's         *)
(* view_budget_status shows (over budget / approaching budget limit /      *)
(* within budget) agrees with get_budget_alerts at the default threshold   *)
(* 80.0 (over_budget / approaching_limit / no alert), a percentage used of *)
(* exactly 80 or exactly 100 included.                                     *)
(***************************************************************************)
AlertTypesFor(alerts, category, period) ==
    {alerts[n].type : n \in AlertsFor(alerts, category, period)}

C27_MenuAgreesWithAlerts ==
    ret.op = "view_budget_status" =>
        \A n \in 1..Len(ret.value) :
            LET types == AlertTypesFor(get_budget_alerts(Whole(80)),
                                       ret.value[n].category, ret.value[n].period)
            IN  /\ ret.value[n].shown = "OVER BUDGET!" <=> types = {"over_budget"}
                /\ ret.value[n].shown = "Approaching budget limit"
                      <=> types = {"approaching_limit"}
                /\ ret.value[n].shown = "Within budget" <=> types = {}


(***************************************************************************)
(* C28: if the spend of a category is the same amount S in every calendar  *)
(* month the lookback window of calculate_recommended_budget(category, n)  *)
(* touches, the current month included, the recommendation is 1.1 * S: the *)
(* divisor n is the number of calendar months the summed window covers.    *)
(***************************************************************************)
\* the calendar months from the month of the window's first day through the
\* month of the current date
MonthsTouched(months) ==
    LET last == today.year * 12 + (today.month - 1)
    IN  {<<index \div 12, (index % 12) + 1>> : index \in (last - months)..last}

\* what the category spent in a calendar month inside the lookback window
SpendInMonth(category, months, ym) ==
    SumAmount(transactions, InLookback(category, months) \cap InMonth(ym[1], ym[2]))

C28_SteadySpendRecommended ==
    ret.op = "calculate_recommended_budget" =>
        \A S \in SteadyAmounts :
            (\A ym \in MonthsTouched(ret.args[2]) :
                 SpendInMonth(ret.args[1], ret.args[2], ym) = S)
              => ret.value = Frac(11 * S, 10)


(***************************************************************************)
(* C29: for every ledger and year, the income and expense totals of        *)
(* get_yearly_totals(year) are the sums over m = 1..12 of those of         *)
(* get_monthly_totals(year, m); so the rows of the yearly report's trend   *)
(* table add up to its summary totals, no transaction of the year being    *)
(* counted in two months or in none.                                       *)
(***************************************************************************)
RECURSIVE RowSum(_, _, _)
\* the sum of the field kind over the first upto rows of a table with one
\* row per month
RowSum(rows, kind, upto) ==
    IF upto = 0 THEN 0 ELSE rows[upto][kind] + RowSum(rows, kind, upto - 1)

C29_YearIsSumOfMonths ==
    /\ ret.op = "get_yearly_totals" =>
          \E rows \in {[m \in 1..12 |-> get_monthly_totals(ret.args[1], m)]} :
              /\ ret.value.income = RowSum(rows, "income", 12)
              /\ ret.value.expense = RowSum(rows, "expense", 12)
    /\ (ret.op = "generate_yearly_report" /\ ~ret.value.error) =>
          /\ RowSum(ret.value.monthly_trends, "income", 12) = ret.value.income
          /\ RowSum(ret.value.monthly_trends, "expense", 12) = ret.value.expense

\* a yearly report of 2024 over an income of 30 November and an expense of
\* 31 December, the last day the year's window holds
C29_Witness ==
    /\ ret.op = "generate_yearly_report"
    /\ ret.args = <<2024>>
    /\ ~ret.value.error
    /\ OfType(InMonth(2024, 11), "income") # {}
    /\ \E i \in OfType(InMonth(2024, 12), "expense") :
          DayOf(transactions[i].date) = <<2024, 12, 31>>
    /\ ret.value.expense > 0


(***************************************************************************)
(* C30: exporting all transactions with export_to_csv and importing that   *)
(* file with import_from_csv into an empty ledger yields the same multiset *)
(* of (type, amount, description, category, date) records as the original  *)
(* ledger, for every ledger add_transaction and update_transaction reach.  *)
(***************************************************************************)
\* how many rows of a table are the record r
Copies(table, r) == Cardinality({i \in DOMAIN table : table[i] = r})

SameMultiset(one, other) ==
    \A r \in {one[i] : i \in DOMAIN one} \cup {other[i] : i \in DOMAIN other} :
        Copies(one, r) = Copies(other, r)

\* the ledger import_from_csv leaves when run on file over an empty ledger
ImportedAfresh(file) == import_rows(file, <<>>, 0, 0).transactions

C30_ExportImportRoundTrip ==
    ret.op = "export_to_csv" =>
        SameMultiset(ImportedAfresh(ret.file), transactions)

====
